---- MODULE Spec2Model ----
(***************************************************************************)
(* Model of source/generate_dict/generate_uid_dict.py: the script that     *)
(* fetches the DICOM PS3.6 docbook, locates the "UID Values" table, turns  *)
(* each body row into a record and writes the records as a Python dict.    *)
(*                                                                         *)
(* Text is a sequence of one-character strings, so that strip, replace,    *)
(* split and format are computed character by character as Python does.    *)
(* Two characters that TLA+ cannot spell are named: ZWSP is U+200B and     *)
(* SHY is U+00AD.  An optional value (Python's None, or an absent XML      *)
(* element) is a sequence of length 0 or 1: <<>> is None, <<v>> is v.      *)
(***************************************************************************)
EXTENDS Integers, Sequences, FiniteSets, TLC

ZWSP == "U+200B"
SHY == "U+00AD"
NL == "\n"
None == <<>>
Some(v) == <<v>>

(***************************************************************************)
(* Python str primitives                                                   *)
(***************************************************************************)

\* str.isspace for one character; U+200B and U+00AD are not whitespace.
IsSpace(c) == c \in {" ", NL, "\t"}

RECURSIVE LStrip(_)
LStrip(s) ==
    IF s # <<>> /\ IsSpace(Head(s)) THEN LStrip(Tail(s)) ELSE s

RECURSIVE RStrip(_)
RStrip(s) ==
    IF s # <<>> /\ IsSpace(s[Len(s)]) THEN RStrip(SubSeq(s, 1, Len(s) - 1)) ELSE s

\* str.strip()
Strip(s) == RStrip(LStrip(s))

\* s.startswith(p)
StartsWith(s, p) == Len(p) <= Len(s) /\ SubSeq(s, 1, Len(p)) = p

\* sub in s
Contains(s, sub) ==
    \E i \in 1..(Len(s) - Len(sub) + 1) : SubSeq(s, i, i + Len(sub) - 1) = sub

\* str.replace(old, new) for a non-empty old: one left-to-right pass over
\* the non-overlapping occurrences; the text produced is not rescanned.
RECURSIVE Replace(_, _, _)
Replace(s, old, new) ==
    IF s = <<>> THEN <<>>
    ELSE IF StartsWith(s, old)
         THEN new \o Replace(SubSeq(s, Len(old) + 1, Len(s)), old, new)
         ELSE <<Head(s)>> \o Replace(Tail(s), old, new)

\* s.split(sep)[0] for a one-character sep: the text before the first sep.
RECURSIVE SplitFirst(_, _)
SplitFirst(s, sep) ==
    IF s = <<>> \/ Head(s) = sep THEN <<>>
    ELSE <<Head(s)>> \o SplitFirst(Tail(s), sep)

\* s.split(sep)[-1] for a one-character sep: the text after the last sep.
RECURSIVE SplitLast(_, _)
SplitLast(s, sep) ==
    IF s = <<>> \/ s[Len(s)] = sep THEN <<>>
    ELSE SplitLast(SubSeq(s, 1, Len(s) - 1), sep) \o <<s[Len(s)]>>

\* sep.join(parts)
RECURSIVE Join(_, _)
Join(sep, parts) ==
    IF parts = <<>> THEN <<>>
    ELSE IF Len(parts) = 1 THEN parts[1]
    ELSE parts[1] \o sep \o Join(sep, Tail(parts))

\* The literals 'Retired' and '(Retired)'.
Retired == <<"R", "e", "t", "i", "r", "e", "d">>
RetiredMarker == <<"(">> \o Retired \o <<")">>

(***************************************************************************)
(* parse_row (nested in parse_docbook_table)                               *)
(*                                                                         *)
(* A row is the sequence of its para elements in document order.  A para   *)
(* is [text |-> optional text, emphasis |-> optional emphasis element],    *)
(* and an emphasis element is [text |-> optional text].                    *)
(***************************************************************************)

\* text.strip().replace(U+200B, ""): strip first, then drop U+200B.
CleanText(text) == Replace(Strip(text), <<ZWSP>>, <<>>)

\* The value one para contributes to cell_values.
CellValue(cell) ==
    IF cell.emphasis # None
    THEN IF cell.emphasis[1].text # None
         THEN CleanText(cell.emphasis[1].text[1])
         ELSE <<>>
    ELSE IF cell.text # None
         THEN CleanText(cell.text[1])
         ELSE <<>>

\* cell_values after the loop over row.iter(para): one append per para.
RECURSIVE CollectCells(_)
CollectCells(row) ==
    IF row = <<>> THEN <<>>
    ELSE CollectCells(SubSeq(row, 1, Len(row) - 1)) \o <<CellValue(row[Len(row)])>>

\* Mutant: the row is required to hold five cells.
RaisesIndexError_FiveNeeded(cv) == Len(cv) < 5

\* cell_values[3] = '' raises IndexError on a list shorter than four.
RaisesIndexError(cv) == Len(cv) < 4

\* Mutant: the empty retired slot is never appended.
PlaceholderStep_NoAppend(cv) == [i \in 1..Len(cv) |-> IF i = 4 THEN <<>> ELSE cv[i]]

\* cell_values[3] = ''; cell_values.append('')
PlaceholderStep(cv) == [cv EXCEPT ![4] = <<>>] \o <<<<>>>>

\* Mutant: the name is not stripped after the marker is removed.
RetiredStep_NoStrip(cv) ==
    IF Contains(cv[2], RetiredMarker)
    THEN [cv EXCEPT ![5] = Retired,
                    ![2] = Replace(cv[2], RetiredMarker, <<>>)]
    ELSE cv

\* if '(Retired)' in cell_values[1]: ...
RetiredStep(cv) ==
    IF Contains(cv[2], RetiredMarker)
    THEN [cv EXCEPT ![5] = Retired,
                    ![2] = Strip(Replace(cv[2], RetiredMarker, <<>>))]
    ELSE cv

\* Mutant: info is all that follows the first colon (split(':', 1)[1]).
InfoStep_FirstColon(cv) ==
    IF Contains(cv[2], <<":">>)
    THEN [cv EXCEPT ![4] = Strip(SubSeq(cv[2], Len(SplitFirst(cv[2], ":")) + 2, Len(cv[2]))),
                    ![2] = Strip(SplitFirst(cv[2], ":"))]
    ELSE cv

\* if ':' in cell_values[1]: ...
InfoStep(cv) ==
    IF Contains(cv[2], <<":">>)
    THEN [cv EXCEPT ![4] = Strip(SplitLast(cv[2], ":")),
                    ![2] = Strip(SplitFirst(cv[2], ":"))]
    ELSE cv

Min(a, b) == IF a < b THEN a ELSE b

\* {key: value for key, value in zip(column_names, cell_values)}: zip stops
\* at the shorter of the two lists.
ZipDict(names, values) ==
    [k \in {names[i] : i \in 1..Min(Len(names), Len(values))} |->
        values[CHOOSE i \in 1..Min(Len(names), Len(values)) : names[i] = k]]

column_names == <<"UID Value", "UID Name", "UID Type", "UID Info", "Retired">>

\* The dict parse_row returns for a row that does not raise.
parse_row(names, row) ==
    ZipDict(names, InfoStep(RetiredStep(PlaceholderStep(CollectCells(row)))))

(***************************************************************************)
(* write_dict                                                              *)
(***************************************************************************)

DICT_NAME ==
    <<"U", "I", "D", "_", "d", "i", "c", "t", "i", "o", "n", "a", "r", "y">>

Noqa == <<" ", " ", "#", " ", "n", "o", "q", "a">>
Indent == <<" ", " ", " ", " ">>

\* entry_format.format(**attr), with
\* entry_format = "'{UID Value}': ('{UID Name}', '{UID Type}', '{UID Info}', '{Retired}')":
\* the fields are inserted as they are.
FormatEntry(attr) ==
    <<"'">> \o attr["UID Value"] \o <<"'", ":", " ", "(", "'">>
        \o attr["UID Name"] \o <<"'", ",", " ", "'">>
        \o attr["UID Type"] \o <<"'", ",", " ", "'">>
        \o attr["UID Info"] \o <<"'", ",", " ", "'">>
        \o attr["Retired"] \o <<"'", ")">>

\* Mutant: the entries are written in ascending order of the value, as the
\* module docstring announces.
CharRank(c) ==
    CASE c = "." -> 1 [] c = "1" -> 2 [] c = "2" -> 3 [] c = "3" -> 4
      [] c = "4" -> 5 [] c = "5" -> 6 [] c = "6" -> 7 [] OTHER -> 8
RECURSIVE TextLess(_, _)
TextLess(a, b) ==
    IF b = <<>> THEN FALSE
    ELSE IF a = <<>> THEN TRUE
    ELSE IF Head(a) = Head(b) THEN TextLess(Tail(a), Tail(b))
    ELSE CharRank(Head(a)) < CharRank(Head(b))
EntryOrder_Sorted(attributes) ==
    LET n == Len(attributes)
        val(i) == attributes[i]["UID Value"]
    IN CHOOSE o \in [1..n -> 1..n] :
        /\ \A i, j \in 1..n : i # j => o[i] # o[j]
        /\ \A i, j \in 1..n :
            i < j => \/ TextLess(val(o[i]), val(o[j]))
                     \/ (val(o[i]) = val(o[j]) /\ o[i] < o[j])

\* The order in which write_dict visits the attributes: the list's own.
EntryOrder(attributes) == [i \in 1..Len(attributes) |-> i]

\* The texts of the three fp.write calls of write_dict, in order.
write_dict(dict_name, attributes) ==
    << <<NL>> \o dict_name \o <<" ", "=", " ", "{", NL>> \o Indent,
       Join(<<",">> \o Noqa \o <<NL>> \o Indent,
            [i \in 1..Len(attributes) |->
                FormatEntry(attributes[EntryOrder(attributes)[i]])]),
       Noqa \o <<NL, "}", NL>> >>

\* '"""DICOM UID dictionary auto-generated by %s"""\n' % basename(__file__)
Header ==
    <<"\"", "\"", "\"", "D", "I", "C", "O", "M", " ", "U", "I", "D", " ",
      "d", "i", "c", "t", "i", "o", "n", "a", "r", "y", " ",
      "a", "u", "t", "o", "-", "g", "e", "n", "e", "r", "a", "t", "e", "d", " ",
      "b", "y", " ",
      "g", "e", "n", "e", "r", "a", "t", "e", "_", "u", "i", "d", "_",
      "d", "i", "c", "t", ".", "p", "y", "\"", "\"", "\"", NL>>

RECURSIVE Flatten(_)
Flatten(parts) == IF parts = <<>> THEN <<>> ELSE Head(parts) \o Flatten(Tail(parts))

(***************************************************************************)
(* parse_docbook_table: the search for the table                           *)
(*                                                                         *)
(* A table is [caption |-> optional caption element, tbody |-> optional    *)
(* sequence of rows]; a caption element is [text |-> optional text].       *)
(***************************************************************************)

\* The caption the script passes: "UID Values".
UIDValues == <<"U", "I", "D", " ", "V", "a", "l", "u", "e", "s">>

\* table.find(caption).text == caption, for a table that has a caption.
CaptionMatches(table, caption) == table.caption[1].text = Some(caption)

\* The first table at which the loop stops: one without a caption element
\* (.text of None raises) or one whose caption matches; 0 when the loop
\* runs off the end.
FirstStop(tables, caption) ==
    LET stops == {i \in 1..Len(tables) :
                     tables[i].caption = None \/ CaptionMatches(tables[i], caption)}
    IN IF stops = {} THEN 0 ELSE CHOOSE i \in stops : \A j \in stops : i <= j

(***************************************************************************)
(* The normalisation loop of the script body                               *)
(***************************************************************************)

\* Mutant: only the first '&' is replaced (replace('&', 'and', 1)).
RECURSIVE ReplaceFirst(_, _, _)
ReplaceFirst(t, old, new) ==
    IF t = <<>> THEN <<>>
    ELSE IF StartsWith(t, old) THEN new \o SubSeq(t, Len(old) + 1, Len(t))
    ELSE <<Head(t)>> \o ReplaceFirst(Tail(t), old, new)
NormalizeAttr_FirstOnly(attr) ==
    [attr EXCEPT !["UID Name"] = ReplaceFirst(@, <<"&">>, <<"a", "n", "d">>),
                 !["UID Value"] = Replace(@, <<SHY>>, <<>>)]

NormalizeAttr(attr) ==
    [attr EXCEPT !["UID Name"] = Replace(@, <<"&">>, <<"a", "n", "d">>),
                 !["UID Value"] = Replace(@, <<SHY>>, <<>>)]

(***************************************************************************)
(* The script body as a state machine                                      *)
(***************************************************************************)

VARIABLES
    pc,           \* the statement the script is about to run
    remote,       \* the document the URL serves (the environment)
    response,     \* the stream urlopen returned: "none", "open", "closed"
    root,         \* optional: the tables of the parsed tree
    rows,         \* parse_docbook_table: the body rows not yet parsed
    cell_values,  \* parse_row: the list collected from the last row
    row_attrs,    \* parse_docbook_table: the records built so far
    ret,          \* optional: what parse_docbook_table returned
    attrs,        \* the script's list of records
    py_file,      \* the output file object: "none", "open", "closed"
    disk,         \* optional: the content of the output file on disk
    err,          \* the exception that ended the run, "" when none
    stdout        \* the numbers the script printed

vars == <<pc, remote, response, root, rows, cell_values, row_attrs, ret,
          attrs, py_file, disk, err, stdout>>

Raise(e) == pc' = "aborted" /\ err' = e

\* response = urllib2.urlopen(url)
UrlOpen ==
    /\ pc = "urlopen"
    /\ \/ response' = "open" /\ pc' = "ET_parse" /\ err' = err
       \/ Raise("URLError") /\ response' = response
    /\ UNCHANGED <<remote, root, rows, cell_values, row_attrs, ret, attrs,
                   py_file, disk, stdout>>

\* tree = ET.parse(response); root = tree.getroot()
\* ET.parse closes only a source it opened itself, never a stream handed in.
ETParse ==
    /\ pc = "ET_parse"
    /\ IF remote.wellformed
       THEN root' = Some(remote.tables) /\ pc' = "parse_docbook_table" /\ err' = err
       ELSE Raise("ParseError") /\ root' = root
    /\ UNCHANGED <<remote, response, rows, cell_values, row_attrs, ret, attrs,
                   py_file, disk, stdout>>

\* parse_docbook_table(root, "UID Values"): the loop over the tables, up to
\* the list comprehension over the rows of the table found.
FindTable ==
    /\ pc = "parse_docbook_table"
    /\ LET tables == root[1]
           i == FirstStop(tables, UIDValues)
       IN IF i = 0
          THEN \* the loop ends and the function returns None
               /\ ret' = None /\ pc' = "extend" /\ err' = err
               /\ UNCHANGED <<rows, row_attrs>>
          ELSE IF tables[i].caption = None \/ tables[i].tbody = None
          THEN \* None.text or None.iter
               /\ Raise("AttributeError")
               /\ UNCHANGED <<rows, row_attrs, ret>>
          ELSE /\ rows' = tables[i].tbody[1]
               /\ row_attrs' = <<>>
               /\ pc' = "parse_row" /\ err' = err
               /\ ret' = ret
    /\ UNCHANGED <<remote, response, root, cell_values, attrs, py_file, disk,
                   stdout>>

\* One call of parse_row by the list comprehension.
ParseRow ==
    /\ pc = "parse_row"
    /\ rows # <<>>
    /\ cell_values' = CollectCells(Head(rows))
    /\ IF RaisesIndexError(cell_values')
       THEN Raise("IndexError") /\ UNCHANGED <<rows, row_attrs>>
       ELSE /\ row_attrs' = Append(row_attrs, parse_row(column_names, Head(rows)))
            /\ rows' = Tail(rows)
            /\ UNCHANGED <<pc, err>>
    /\ UNCHANGED <<remote, response, root, ret, attrs, py_file, disk, stdout>>

\* return row_attrs
ReturnRows ==
    /\ pc = "parse_row"
    /\ rows = <<>>
    /\ ret' = Some(row_attrs)
    /\ row_attrs' = <<>> /\ cell_values' = <<>>   \* the locals are gone
    /\ pc' = "extend"
    /\ UNCHANGED <<remote, response, root, rows, attrs, py_file, disk, err, stdout>>

\* Mutant: a None result is taken for an empty list (attrs += result or []).
Extend_NoneAsEmpty ==
    /\ pc = "extend"
    /\ attrs' = attrs \o (IF ret = None THEN <<>> ELSE ret[1])
    /\ ret' = None
    /\ pc' = "normalize"
    /\ UNCHANGED <<remote, response, root, rows, cell_values, row_attrs,
                   py_file, disk, err, stdout>>

\* attrs += <the value returned>: None is not iterable.
Extend ==
    /\ pc = "extend"
    /\ IF ret = None
       THEN Raise("TypeError") /\ attrs' = attrs /\ ret' = ret
       ELSE attrs' = attrs \o ret[1] /\ ret' = None /\ pc' = "normalize" /\ err' = err
    /\ UNCHANGED <<remote, response, root, rows, cell_values, row_attrs,
                   py_file, disk, stdout>>

\* for attr in attrs: ...
Normalize ==
    /\ pc = "normalize"
    /\ attrs' = [i \in 1..Len(attrs) |-> NormalizeAttr(attrs[i])]
    /\ pc' = "open"
    /\ UNCHANGED <<remote, response, root, rows, cell_values, row_attrs, ret,
                   py_file, disk, err, stdout>>

\* py_file = open(PYDICOM_DICT_FILENAME, "w"): creates or truncates the file.
Open ==
    /\ pc = "open"
    /\ \/ py_file' = "open" /\ disk' = Some(<<>>) /\ pc' = "write_header" /\ err' = err
       \/ Raise("IOError") /\ UNCHANGED <<py_file, disk>>
    /\ UNCHANGED <<remote, response, root, rows, cell_values, row_attrs, ret,
                   attrs, stdout>>

\* py_file.write('"""DICOM UID dictionary auto-generated by %s"""\n' % ...)
WriteHeader ==
    /\ pc = "write_header"
    /\ \/ disk' = Some(disk[1] \o Header) /\ pc' = "write_dict" /\ err' = err
       \/ Raise("IOError") /\ disk' = disk
    /\ UNCHANGED <<remote, response, root, rows, cell_values, row_attrs, ret,
                   attrs, py_file, stdout>>

\* write_dict(py_file, DICT_NAME, attrs): its three writes; a write may fail,
\* leaving the earlier ones in the file.
WriteDict ==
    /\ pc = "write_dict"
    /\ LET w == write_dict(DICT_NAME, attrs)
       IN \/ disk' = Some(disk[1] \o Flatten(w)) /\ pc' = "close" /\ err' = err
          \/ \E done \in 0..2 :
                /\ disk' = Some(disk[1] \o Flatten(SubSeq(w, 1, done)))
                /\ Raise("IOError")
    /\ UNCHANGED <<remote, response, root, rows, cell_values, row_attrs, ret,
                   attrs, py_file, stdout>>

\* py_file.close()
Close ==
    /\ pc = "close"
    /\ py_file' = "closed"
    /\ pc' = "print"
    /\ UNCHANGED <<remote, response, root, rows, cell_values, row_attrs, ret,
                   attrs, disk, err, stdout>>

\* print("Finished, wrote %d UIDs" % len(attrs))
PrintCount ==
    /\ pc = "print"
    /\ stdout' = Append(stdout, Len(attrs))
    /\ pc' = "done"
    /\ UNCHANGED <<remote, response, root, rows, cell_values, row_attrs, ret,
                   attrs, py_file, disk, err>>

Next ==
    \/ UrlOpen
    \/ ETParse
    \/ FindTable
    \/ ParseRow
    \/ ReturnRows
    \/ Extend
    \/ Normalize
    \/ Open
    \/ WriteHeader
    \/ WriteDict
    \/ Close
    \/ PrintCount

(***************************************************************************)
(* The documents the runs are checked on                                   *)
(***************************************************************************)

MaxNameFrags == 3
MaxCellFrags == 4
MaxCells == 6
MaxRows == 2
MaxTables == 2

\* Every text made of at most n of the fragments.
RECURSIVE Texts(_, _)
Texts(frags, n) ==
    IF n = 0 THEN {<<>>}
    ELSE {<<>>} \cup {f \o t : f \in frags, t \in Texts(frags, n - 1)}

\* Every sequence of at most n of the items.
RECURSIVE Lists(_, _)
Lists(items, n) ==
    IF n = 0 THEN {<<>>}
    ELSE {<<>>} \cup {<<x>> \o l : x \in items, l \in Lists(items, n - 1)}

NameFrags ==
    {<<"A">>, <<"B">>, <<" ">>, <<":">>, <<"&">>, RetiredMarker,
     <<"(", "R", "e", "t", "i">>, <<"r", "e", "d", ")">>}

NamedNames ==
    {<<"S", "o", "m", "e", " ", "N", "a", "m", "e", " ",
       "(", "R", "e", "t", "i", "r", "e", "d", ")">>,
     <<"E", "x", "p", "l", "i", "c", "i", "t", " ", "V", "R", " ",
       "L", "i", "t", "t", "l", "e", " ", "E", "n", "d", "i", "a", "n", ":", " ",
       "D", "e", "f", "a", "u", "l", "t", " ", "T", "r", "a", "n", "s", "f", "e", "r",
       " ", "S", "y", "n", "t", "a", "x">>,
     <<"A", " ", "&", " ", "B", " ", "S", "t", "o", "r", "a", "g", "e">>,
     <<"A", ":", " ", "B", ":", " ", "C">>}

Names == Texts(NameFrags, MaxNameFrags) \cup NamedNames

CellFrags == {<<" ">>, <<ZWSP>>, <<"x">>}
CellTexts == Texts(CellFrags, MaxCellFrags)

Para(t) == [text |-> Some(t), emphasis |-> None]
EmphPara(t) == [text |-> None, emphasis |-> Some([text |-> Some(t)])]
EmptyPara == [text |-> None, emphasis |-> None]
EmptyEmph == [text |-> None, emphasis |-> Some([text |-> None])]
TextAndEmptyEmph == [text |-> Some(<<"x">>), emphasis |-> Some([text |-> None])]

Uid == <<"1", ".", "2">>
Kind == <<"K">>
Part == <<"P">>

\* A row of the table as the standard publishes it: four cells.
Row4(value, name) == <<value, Para(name), Para(Kind), Para(Part)>>

\* A row of n cells; the fifth cell holds `fifth`.
RowOfLen(n, name, fifth) ==
    [i \in 1..n |->
        CASE i = 1 -> Para(Uid)
          [] i = 2 -> Para(name)
          [] i = 3 -> Para(Kind)
          [] i = 4 -> Para(Part)
          [] i = 5 -> Para(fifth)
          [] OTHER -> Para(<<"Y">>)]

Caption(t) == Some([text |-> Some(t)])
Table(rowlist) == [caption |-> Caption(UIDValues), tbody |-> Some(rowlist)]
Doc(tables) == [wellformed |-> TRUE, tables |-> tables]

\* One table, one row, the name cell ranging over Names.
NameDocs == {Doc(<<Table(<<Row4(Para(Uid), n)>>)>>) : n \in Names}

\* One table, one row of 0 to MaxCells cells.
ShapeNames == {<<"A">>, <<"A", " ">> \o RetiredMarker, <<"A", ":", " ", "B">>}
ShapeDocs ==
    {Doc(<<Table(<<RowOfLen(n, name, fifth)>>)>>) :
        n \in 0..MaxCells, name \in ShapeNames, fifth \in {<<"Z">>, <<>>}}

\* One table, one row, the first cell ranging over the shapes of a para.
CellShapes ==
    {Para(t) : t \in CellTexts} \cup {EmphPara(t) : t \in CellTexts}
        \cup {EmptyPara, EmptyEmph, TextAndEmptyEmph}
CellDocs == {Doc(<<Table(<<Row4(c, <<"A">>)>>)>>) : c \in CellShapes}

\* One table of 0 to MaxRows rows whose fields hold the characters that
\* matter to the serialised text.
SampleRows ==
    {Row4(Para(Uid), <<"A">>),
     Row4(Para(<<"1", SHY, ".", "3">>), <<"A", " ", "&", " ", "B">>),
     Row4(Para(<<"1", ".", "3">>), <<"B", "'", "s">>),
     Row4(Para(<<"1", ".", "4">>), <<"B", "\\">>),
     Row4(Para(<<"1", ".", "5">>), <<"A", NL, "B">>),
     Row4(Para(<<"1", ".", "6">>), <<"A", "\\", "n", "B">>)}
ListDocs == {Doc(<<Table(l)>>) : l \in Lists(SampleRows, MaxRows)}

\* Documents of 0 to MaxTables tables, with and without the table sought.
SampleTables ==
    {[caption |-> None, tbody |-> Some(<<>>)],
     [caption |-> Some([text |-> None]), tbody |-> Some(<<>>)],
     [caption |-> Caption(<<"X">>), tbody |-> Some(<<Row4(Para(Uid), <<"A">>)>>)],
     [caption |-> Caption(UIDValues \o <<" ">>), tbody |-> Some(<<>>)],
     [caption |-> Caption(UIDValues), tbody |-> None],
     Table(<<Row4(Para(Uid), <<"A">>)>>),
     Table(<<Row4(Para(Uid), <<"B">>)>>)}
TableDocs ==
    {Doc(l) : l \in Lists(SampleTables, MaxTables)}
        \cup {[wellformed |-> FALSE, tables |-> <<>>]}

Remotes == NameDocs \cup ShapeDocs \cup CellDocs \cup ListDocs \cup TableDocs

OldContent == <<"o", "l", "d">>

Init ==
    /\ pc = "urlopen"
    /\ remote \in Remotes
    /\ response = "none"
    /\ root = None
    /\ rows = <<>>
    /\ cell_values = <<>>
    /\ row_attrs = <<>>
    /\ ret = None
    /\ attrs = <<>>
    /\ py_file = "none"
    /\ disk \in IF remote \in TableDocs THEN {None, Some(OldContent)}
                ELSE {Some(OldContent)}
    /\ err = ""
    /\ stdout = <<>>

Spec == Init /\ [][Next]_vars

(***************************************************************************)
(* Vocabulary of the properties, defined without the operators above       *)
(***************************************************************************)

\* The table the search stopped at, and the row behind the i-th record.
Found == root[1][FirstStop(root[1], UIDValues)]
SrcRow(i) == Found.tbody[1][i]

HasChar(s, c) == \E i \in 1..Len(s) : s[i] = c
Trimmed(s) == s = <<>> \/ (~IsSpace(s[1]) /\ ~IsSpace(s[Len(s)]))

FirstIndex(s, c) == CHOOSE i \in 1..Len(s) : s[i] = c /\ \A j \in 1..(i - 1) : s[j] # c
LastIndex(s, c) == CHOOSE i \in 1..Len(s) : s[i] = c /\ \A j \in (i + 1)..Len(s) : s[j] # c
BeforeFirst(s, c) == SubSeq(s, 1, FirstIndex(s, c) - 1)
AfterFirst(s, c) == SubSeq(s, FirstIndex(s, c) + 1, Len(s))
AfterLast(s, c) == SubSeq(s, LastIndex(s, c) + 1, Len(s))

\* s without leading and trailing whitespace.
Trim(s) ==
    LET keep == {i \in 1..Len(s) : ~IsSpace(s[i])}
    IN IF keep = {} THEN <<>>
       ELSE SubSeq(s, CHOOSE i \in keep : \A j \in keep : i <= j,
                      CHOOSE i \in keep : \A j \in keep : j <= i)

\* The characters of s at the positions in keep, in order.
RECURSIVE Pick(_, _, _)
Pick(s, keep, i) ==
    IF i > Len(s) THEN <<>>
    ELSE (IF i \in keep THEN <<s[i]>> ELSE <<>>) \o Pick(s, keep, i + 1)

\* s with every occurrence of "(Retired)" cut out, once; two occurrences
\* cannot overlap, as the marker has its "(" only at the start.
MarkerAt(s, i) == i + 8 <= Len(s) /\ SubSeq(s, i, i + 8) = RetiredMarker
WithoutMarkers(s) ==
    Pick(s, {i \in 1..Len(s) : ~\E p \in 1..i : p + 8 >= i /\ MarkerAt(s, p)}, 1)

\* s with each character c replaced by the text new.
RECURSIVE Subst(_, _, _)
Subst(s, c, new) ==
    IF s = <<>> THEN <<>>
    ELSE Subst(SubSeq(s, 1, Len(s) - 1), c, new)
            \o (IF s[Len(s)] = c THEN new ELSE <<s[Len(s)]>>)

FiveKeys == {"UID Value", "UID Name", "UID Type", "UID Info", "Retired"}

\* The text a para holds: its emphasis child's when it has one, else its own.
RawText(cell) ==
    LET t == IF cell.emphasis # None THEN cell.emphasis[1].text ELSE cell.text
    IN IF t = None THEN <<>> ELSE t[1]

\* The cell string collected for the name column of a row.
NameCell(row) == CellValue(row[2])

\* Nothing has opened or written the output file.
FileUntouched == py_file = "none" /\ disk \in {None, Some(OldContent)}

\* The records extracted so far, while extraction is still running.
Extracting == pc = "parse_row"

(***************************************************************************)
(* C1                                                                      *)
(***************************************************************************)

NameAtInfoStep(row) ==
    IF \E p \in 1..Len(NameCell(row)) : MarkerAt(NameCell(row), p)
    THEN Trim(WithoutMarkers(NameCell(row)))
    ELSE NameCell(row)

\* C2, as stated: a name with a colon is split on the first colon, name the
\* trimmed text before it and info the trimmed text of everything after it;
\* a name without a colon keeps its text and gets an empty info.
C2_SplitOnFirstColon ==
    Extracting =>
        \A i \in 1..Len(row_attrs) :
            LET n == NameAtInfoStep(SrcRow(i))
                rec == row_attrs[i]
            IN IF HasChar(n, ":")
               THEN /\ rec["UID Name"] = Trim(BeforeFirst(n, ":"))
                    /\ rec["UID Info"] = Trim(AfterFirst(n, ":"))
               ELSE /\ rec["UID Name"] = n
                    /\ rec["UID Info"] = <<>>

\* C2, amended: a name with a colon gives name the trimmed text before the
\* first colon and info the trimmed text after the LAST colon (what lies
\* between two colons is dropped); a name without a colon keeps its text and
\* gets an empty info.
C2_NameFirstInfoLast ==
    Extracting =>
        \A i \in 1..Len(row_attrs) :
            LET n == NameAtInfoStep(SrcRow(i))
                rec == row_attrs[i]
            IN IF HasChar(n, ":")
               THEN /\ rec["UID Name"] = Trim(BeforeFirst(n, ":"))
                    /\ rec["UID Info"] = Trim(AfterLast(n, ":"))
               ELSE /\ rec["UID Name"] = n
                    /\ rec["UID Info"] = <<>>

\* C2 witness: the name "A: B: C" has been parsed into name "A", info "C".
C2_Witness ==
    /\ Extracting
    /\ \E i \in 1..Len(row_attrs) :
        /\ NameCell(SrcRow(i)) = <<"A", ":", " ", "B", ":", " ", "C">>
        /\ row_attrs[i]["UID Name"] = <<"A">>
        /\ row_attrs[i]["UID Info"] = <<"C">>

(***************************************************************************)
(* C3                                                                      *)
(***************************************************************************)

\* C3, as stated: a name cell containing "(Retired)" gives retired
\* "Retired" and a name that is the cell with the marker removed and
\* trimmed (read here for names without a colon, which the later colon step
\* leaves alone), and the record's name never contains "(Retired)".
C3_MarkerGone ==
    Extracting =>
        \A i \in 1..Len(row_attrs) :
            LET n == NameCell(SrcRow(i))
                cut == Trim(WithoutMarkers(n))
                rec == row_attrs[i]
            IN (\E p \in 1..Len(n) : MarkerAt(n, p)) =>
                    /\ rec["Retired"] = Retired
                    /\ ~HasChar(cut, ":") => rec["UID Name"] = cut
                    /\ ~\E p \in 1..Len(rec["UID Name"]) : MarkerAt(rec["UID Name"], p)

\* C3, amended: a name cell containing "(Retired)" gives retired "Retired"
\* and a name that is the cell with each occurrence of the marker cut out
\* once, in a single pass, and the result trimmed, then cut at its first
\* colon and trimmed again when it contains a colon.  The pass does not look
\* at its own output, so the name may still contain "(Retired)" (see the
\* witness).
C3_MarkerCutOnce ==
    Extracting =>
        \A i \in 1..Len(row_attrs) :
            LET n == NameCell(SrcRow(i))
                cut == Trim(WithoutMarkers(n))
                rec == row_attrs[i]
            IN (\E p \in 1..Len(n) : MarkerAt(n, p)) =>
                    /\ rec["Retired"] = Retired
                    /\ rec["UID Name"] =
                        (IF HasChar(cut, ":") THEN Trim(BeforeFirst(cut, ":")) ELSE cut)

\* C3 witness: "(Reti(Retired)red)" has been parsed, and the record's name
\* is "(Retired)".
C3_Witness ==
    /\ Extracting
    /\ \E i \in 1..Len(row_attrs) :
        /\ NameCell(SrcRow(i)) =
                <<"(", "R", "e", "t", "i">> \o RetiredMarker \o <<"r", "e", "d", ")">>
        /\ row_attrs[i]["Retired"] = Retired
        /\ row_attrs[i]["UID Name"] = RetiredMarker

(***************************************************************************)
(* C4                                                                      *)
(***************************************************************************)

\* C4, as stated: a row that yields a number of cells other than five never
\* becomes a record: every record made comes from a row of five cells.
C4_OnlyFiveCellRows ==
    Extracting => \A i \in 1..Len(row_attrs) : Len(SrcRow(i)) = 5

\* C4, amended: a row that yields fewer than four cells aborts the run with
\* an IndexError, no record is made of it and the output file is not
\* touched; a row of four cells becomes a record (padded with the empty
\* retired slot) and a row of more than five cells becomes a record of its
\* first five values (the rest dropped without an error).
C4_ShortRowsAbort ==
    /\ Extracting =>
        \A i \in 1..Len(row_attrs) :
            /\ Len(SrcRow(i)) >= 4
            /\ DOMAIN row_attrs[i] = FiveKeys
            /\ row_attrs[i]["UID Value"] = CellValue(SrcRow(i)[1])
            /\ row_attrs[i]["UID Type"] = CellValue(SrcRow(i)[3])
    /\ err = "IndexError" =>
            /\ pc = "aborted"
            /\ rows # <<>> /\ Len(Head(rows)) < 4
            /\ Len(row_attrs) + Len(rows) = Len(Found.tbody[1])
            /\ attrs = <<>>
            /\ FileUntouched
    /\ (pc = "aborted" /\ rows # <<>>) => (err = "IndexError" /\ Len(Head(rows)) < 4)
    /\ (pc \notin {"parse_row", "aborted"}) => rows = <<>>

\* C4 witness: a row of three cells has aborted the run.
C4_Witness ==
    /\ pc = "aborted"
    /\ err = "IndexError"
    /\ Len(Head(rows)) = 3
    /\ row_attrs = <<>>

(***************************************************************************)
(* C5                                                                      *)
(***************************************************************************)

\* No table of the parsed document has a caption equal to "UID Values".
NoTableMatches ==
    /\ root # None
    /\ \A i \in 1..Len(root[1]) :
          \/ root[1][i].caption = None
          \/ root[1][i].caption[1].text # Some(UIDValues)

Written == SubSeq(disk[1], Len(Header) + 1, Len(disk[1]))
WriteDictDone == pc = "close"

\* The lines of a text: the pieces between its line breaks.
RECURSIVE SplitLines(_)
SplitLines(t) ==
    IF ~HasChar(t, NL) THEN <<t>>
    ELSE <<BeforeFirst(t, NL)>> \o SplitLines(AfterFirst(t, NL))

Quoted(t) == <<"'">> \o t \o <<"'">>
NoqaMarker == <<"#", " ", "n", "o", "q", "a">>

\* '<value>': ('<name>', '<kind>', '<info>', '<retired>')
EntryText(rec) ==
    Quoted(rec["UID Value"]) \o <<":", " ", "(">>
        \o Quoted(rec["UID Name"]) \o <<",", " ">>
        \o Quoted(rec["UID Type"]) \o <<",", " ">>
        \o Quoted(rec["UID Info"]) \o <<",", " ">>
        \o Quoted(rec["Retired"]) \o <<")">>

\* The i-th entry line of n: indented, a comma after every entry but the
\* last, then the marker.
EntryLine(rec, i, n) ==
    <<" ", " ", " ", " ">> \o EntryText(rec)
        \o (IF i < n THEN <<",">> ELSE <<>>) \o <<" ", " ">> \o NoqaMarker

OpeningLine == DICT_NAME \o <<" ", "=", " ", "{">>

HasLineBreak(rec) == \E k \in DOMAIN rec : HasChar(rec[k], NL)

NameChars ==
    {"_", "0", "1", "2", "3", "4", "5", "6", "7", "8", "9",
     "a", "b", "c", "d", "e", "f", "g", "h", "i", "j", "k", "l", "m",
     "n", "o", "p", "q", "r", "s", "t", "u", "v", "w", "x", "y", "z",
     "A", "B", "C", "D", "E", "F", "G", "H", "I", "J", "K", "L", "M",
     "N", "O", "P", "Q", "R", "S", "T", "U", "V", "W", "X", "Y", "Z"}
OpChars == {"=", "{", "}", "(", ")", ",", ":"}
BadToken == [t |-> "bad", v |-> <<>>]

\* What a backslash and the character c after it stand for; <<"bad">> for an
\* escape outside the model.
Unescape(c) ==
    CASE c \in {"\\", "'", "\""} -> <<c>>
      [] c = "n" -> <<NL>>
      [] c = "t" -> <<"\t">>
      [] c = NL -> <<>>
      [] c \in {"a", "b", "f", "v", "r", "0", "1", "2", "3", "4", "5", "6", "7"} ->
            <<"control character">>
      [] c \in {"x", "u", "U", "N"} -> <<"bad">>
      [] OTHER -> <<"\\", c>>

\* The string whose opening quote precedes position j.
RECURSIVE ReadString(_, _, _)
ReadString(t, j, acc) ==
    IF j > Len(t) \/ t[j] = NL THEN [ok |-> FALSE, v |-> acc, next |-> j]
    ELSE IF t[j] = "'" THEN [ok |-> TRUE, v |-> acc, next |-> j + 1]
    ELSE IF t[j] = "\\"
         THEN IF j + 1 > Len(t) \/ Unescape(t[j + 1]) = <<"bad">>
              THEN [ok |-> FALSE, v |-> acc, next |-> j]
              ELSE ReadString(t, j + 2, acc \o Unescape(t[j + 1]))
    ELSE ReadString(t, j + 1, acc \o <<t[j]>>)

\* The last position of the run of characters of `chars` starting at i.
RECURSIVE RunEnd(_, _, _)
RunEnd(t, i, chars) ==
    IF i + 1 <= Len(t) /\ t[i + 1] \in chars THEN RunEnd(t, i + 1, chars) ELSE i

\* The position after the end of the line that holds position i.
RECURSIVE LineEnd(_, _)
LineEnd(t, i) == IF i > Len(t) \/ t[i] = NL THEN i + 1 ELSE LineEnd(t, i + 1)

RECURSIVE Lex(_, _)
Lex(t, i) ==
    IF i > Len(t) THEN <<>>
    ELSE IF IsSpace(t[i]) THEN Lex(t, i + 1)
    ELSE IF t[i] = "#" THEN Lex(t, LineEnd(t, i))
    ELSE IF t[i] = "'"
         THEN IF i + 2 <= Len(t) /\ t[i + 1] = "'" /\ t[i + 2] = "'"
              THEN <<BadToken>>
              ELSE LET r == ReadString(t, i + 1, <<>>)
                   IN IF r.ok THEN <<[t |-> "str", v |-> r.v]>> \o Lex(t, r.next)
                      ELSE <<BadToken>>
    ELSE IF t[i] \in OpChars THEN <<[t |-> "op", v |-> <<t[i]>>]>> \o Lex(t, i + 1)
    ELSE IF t[i] \in NameChars
         THEN LET e == RunEnd(t, i, NameChars)
              IN <<[t |-> "name", v |-> SubSeq(t, i, e)]>> \o Lex(t, e + 1)
    ELSE <<BadToken>>

\* Adjacent string literals are one string.
RECURSIVE JoinStrings(_)
JoinStrings(toks) ==
    IF Len(toks) < 2 THEN toks
    ELSE IF toks[1].t = "str" /\ toks[2].t = "str"
         THEN JoinStrings(<<[t |-> "str", v |-> toks[1].v \o toks[2].v]>>
                            \o SubSeq(toks, 3, Len(toks)))
         ELSE <<toks[1]>> \o JoinStrings(Tail(toks))

IsOp(toks, i, c) == i <= Len(toks) /\ toks[i] = [t |-> "op", v |-> <<c>>]
IsStr(toks, i) == i <= Len(toks) /\ toks[i].t = "str"

\* 'key' : ( 'a' , 'b' , 'c' , 'd' ) at token i, a comma allowed before ")".
EntryAt(toks, i) ==
    LET shape ==
            /\ IsStr(toks, i) /\ IsOp(toks, i + 1, ":") /\ IsOp(toks, i + 2, "(")
            /\ IsStr(toks, i + 3) /\ IsOp(toks, i + 4, ",")
            /\ IsStr(toks, i + 5) /\ IsOp(toks, i + 6, ",")
            /\ IsStr(toks, i + 7) /\ IsOp(toks, i + 8, ",")
            /\ IsStr(toks, i + 9)
        close == IF IsOp(toks, i + 10, ",") THEN i + 11 ELSE i + 10
    IN IF shape /\ IsOp(toks, close, ")")
       THEN [ok |-> TRUE, key |-> toks[i].v,
             val |-> <<toks[i + 3].v, toks[i + 5].v, toks[i + 7].v, toks[i + 9].v>>,
             next |-> close + 1]
       ELSE [ok |-> FALSE, key |-> <<>>, val |-> <<>>, next |-> i]

\* The entries from token i to the closing brace; a later key replaces an
\* earlier equal one.
RECURSIVE Entries(_, _, _)
Entries(toks, i, acc) ==
    IF i > Len(toks) THEN None
    ELSE IF IsOp(toks, i, "}") THEN (IF i = Len(toks) THEN Some(acc) ELSE None)
    ELSE LET e == EntryAt(toks, i)
         IN IF ~e.ok THEN None
            ELSE IF IsOp(toks, e.next, ",")
                 THEN Entries(toks, e.next + 1, (e.key :> e.val) @@ acc)
            ELSE IF IsOp(toks, e.next, "}")
                 THEN Entries(toks, e.next, (e.key :> e.val) @@ acc)
            ELSE None

\* The mapping the text denotes, None when it denotes none.
ParseDictText(text) ==
    LET toks == JoinStrings(Lex(text, 1))
    IN IF /\ Len(toks) >= 3
          /\ toks[1] = [t |-> "name", v |-> DICT_NAME]
          /\ IsOp(toks, 2, "=") /\ IsOp(toks, 3, "{")
       THEN Entries(toks, 4, <<>>)
       ELSE None

\* The record list keyed by value; a later record replaces an earlier one
\* of the same value.
RECURSIVE AsMapping(_)
AsMapping(records) ==
    IF records = <<>> THEN <<>>
    ELSE LET r == records[Len(records)]
         IN (r["UID Value"] :>
                <<r["UID Name"], r["UID Type"], r["UID Info"], r["Retired"]>>)
            @@ AsMapping(SubSeq(records, 1, Len(records) - 1))

\* C7: the text write_dict wrote reads back as the mapping of the record
\* list keyed by value, whatever characters the fields hold.
C7_RoundTrip ==
    WriteDictDone => ParseDictText(Written) = Some(AsMapping(attrs))

\* Where the round trip does hold: no field holds a quote, a backslash or a
\* line break.
PlainField(t) == ~HasChar(t, "'") /\ ~HasChar(t, "\\") /\ ~HasChar(t, NL)
RoundTripOfPlainFields ==
    (WriteDictDone /\ \A i \in 1..Len(attrs) : \A k \in FiveKeys : PlainField(attrs[i][k]))
        => ParseDictText(Written) = Some(AsMapping(attrs))

(***************************************************************************)
(* C8                                                                      *)
(***************************************************************************)

AndWord == <<"a", "n", "d">>

\* C8: the normalisation loop runs once, on all the extracted records and
\* with the output file not yet opened; it turns each record's name into
\* that name with every '&' replaced by "and" and each value into that value
\* without its U+00AD characters, and changes nothing else; so no name
\* holds '&' and no value holds U+00AD when the file is opened and written.
C8_Normalization ==
    [][ /\ pc = "normalize" =>
            /\ FileUntouched
            /\ Len(attrs) = Len(Found.tbody[1])
            /\ Len(attrs') = Len(attrs)
            /\ \A i \in 1..Len(attrs) :
                /\ DOMAIN attrs'[i] = DOMAIN attrs[i]
                /\ attrs'[i]["UID Name"] = Subst(attrs[i]["UID Name"], "&", AndWord)
                /\ attrs'[i]["UID Value"] = Subst(attrs[i]["UID Value"], SHY, <<>>)
                /\ \A k \in {"UID Type", "UID Info", "Retired"} : attrs'[i][k] = attrs[i][k]
        /\ pc' \in {"open", "write_header", "write_dict", "close", "print", "done"} =>
            \A i \in 1..Len(attrs') :
                /\ ~HasChar(attrs'[i]["UID Name"], "&")
                /\ ~HasChar(attrs'[i]["UID Value"], SHY)
        /\ py_file' # "none" => pc # "normalize" /\ pc' \notin {"normalize", "extend", "parse_row"}
      ]_vars

\* C8 witness: "A & B Storage" has become "A and B Storage" before the file
\* is opened.
C8_Witness ==
    /\ pc = "open"
    /\ FileUntouched
    /\ \E i \in 1..Len(attrs) :
        /\ NameCell(SrcRow(i)) = <<"A", " ", "&", " ", "B", " ", "S", "t", "o", "r", "a", "g", "e">>
        /\ attrs[i]["UID Name"] =
            <<"A", " ", "a", "n", "d", " ", "B", " ", "S", "t", "o", "r", "a", "g", "e">>

(***************************************************************************)
(* C9                                                                      *)
(***************************************************************************)

RunEnded == pc \in {"done", "aborted"}

\* C9: when the run has ended, normally or on an error, neither the
\* response stream nor the output file is still open.
C9_ResourcesReleased ==
    RunEnded => (response # "open" /\ py_file # "open")

(***************************************************************************)
(* C10                                                                     *)
(***************************************************************************)

\* C10: every cell string collected by parse_row has no leading or trailing
\* whitespace and holds no U+200B.
C10_CellsClean ==
    \A i \in 1..Len(cell_values) :
        Trimmed(cell_values[i]) /\ ~HasChar(cell_values[i], ZWSP)

\* What does hold of the collected cells: none holds U+200B, and a para or
\* emphasis element without text gives the empty string.
CellsHoldNoZwsp ==
    /\ \A i \in 1..Len(cell_values) : ~HasChar(cell_values[i], ZWSP)
    /\ (Extracting /\ row_attrs # <<>>) =>
            \A i \in 1..Len(cell_values) :
                LET cell == SrcRow(Len(row_attrs))[i]
                IN (IF cell.emphasis # None THEN cell.emphasis[1].text ELSE cell.text) = None
                        => cell_values[i] = <<>>

====
